---- MODULE Spec2Model ----
(***************************************************************************)
(* diald: the dial daemon of src/src/main.rs.                              *)
(*                                                                         *)
(* The state is the DialState and the EventBatcher owned by main's poll    *)
(* loop, the inbound channel filled by the MQTT thread, and the position   *)
(* of the poll loop.  One action per step of the loop and per arm of the   *)
(* event match.                                                            *)
(*                                                                         *)
(* Time.  The program only ever compares Instant::now() with a stored      *)
(* Instant, so an Option<Instant> field holds the time elapsed since that  *)
(* instant in milliseconds (now - t), saturated at the one duration it is  *)
(* compared with; Instant::now() is 0 and duration_since(t) is the field.  *)
(* The batcher's deadline holds the time left until it (deadline - now),   *)
(* saturated at 0, so "now < deadline" is "deadline > 0".                  *)
(* Option values are sequences: None is <<>> and Some(x) is <<x>>.         *)
(*                                                                         *)
(* volume is an f64 that only ever holds integers (50.0, an i32 cast, the  *)
(* sum with an i32 cast, the bounds 0.0 and 100.0), so it is an integer    *)
(* here and round() leaves it as it is.                                    *)
(***************************************************************************)
EXTENDS Integers, Sequences, FiniteSets

VARIABLES
    mode,                        \* DialState.mode: "Idle", "Active", "Backlash"
    last_event_at,               \* DialState.last_event_at
    volume,                      \* DialState.volume
    raw_accumulator,             \* DialState.raw_accumulator
    last_print_at,               \* DialState.last_print_at
    last_printed_volume,         \* DialState.last_printed_volume
    clicking,                    \* DialState.clicking
    last_raw_direction,          \* DialState.last_raw_direction
    consistent_direction_count,  \* DialState.consistent_direction_count
    pre_backlash_direction,      \* DialState.pre_backlash_direction
    backlash_accumulator,        \* DialState.backlash_accumulator
    events,                      \* EventBatcher.events
    deadline,                    \* EventBatcher.deadline
    incoming_rx,                 \* the mpsc channel of inbound volume commands
    pc,                          \* where main is: "open", "flush", "drain", "idle", "fetch", "events"
    feedback,                    \* calls of haptic.send_chunky() made by the last step
    published,                   \* the volume logged and published by the last step, if any
    flushed,                     \* the counts emit_batch produced in the last step, if any
    outcome,                     \* what the last step did (its branch)
    buffered,                    \* sum of the deltas handled since Backlash was entered
    n_events                     \* input events handled so far (bounds the model)

dial == <<mode, last_event_at, volume, raw_accumulator, last_print_at,
          last_printed_volume, clicking, last_raw_direction,
          consistent_direction_count, pre_backlash_direction,
          backlash_accumulator>>
batcher == <<events, deadline>>
observed == <<feedback, published, flushed, outcome, buffered>>
vars == <<dial, batcher, incoming_rx, pc, observed, n_events>>

---------------------------------------------------------------------------
(* Program constants *)

BACKLASH_THRESHOLD == 25
BACKLASH_CANCEL_THRESHOLD == BACKLASH_THRESHOLD \div 5
IDLE_TIMEOUT == 30000
BATCH_WINDOW == 250
PRINT_INTERVAL == 250
RAW_PER_UNIT == 40
VOLUME_MIN == 0
VOLUME_MAX == 100
INITIAL_VOLUME == 50
REOPEN_SLEEP == 1000
POLL_SLEEP == 10
I32_MAX == 2147483647
I32_MIN == -I32_MAX - 1

\* The click timeout of the specification (2 s); main.rs has no such value.
CLICK_TIMEOUT == 2000

---------------------------------------------------------------------------
(* Bounds of the model *)

\* Input events handled in one behaviour of Spec.
MaxEvents == 4
\* REL_DIAL events that lead a gesture of SpecRotation into Backlash.
MaxLead == 3
\* Labels pending in the batcher.
MaxPending == 2
\* Commands waiting in the inbound channel.
MaxInbox == 1
\* The fine step of the clock, in milliseconds.
FineStep == 125
\* Commands the MQTT thread sends between two drains in SpecInbound.
MaxBurst == 2
\* Input events handled in one behaviour of SpecInbound.
MaxTurns == 3
\* REL_DIAL events handled in one behaviour of SpecExtreme.
MaxExtreme == 3
\* Button events and device losses in one behaviour of SpecLive.
MaxLive == 3

\* The values REL_DIAL events carry.
Deltas == {-45, -1, 0, 1, 45}
\* REL_DIAL values at the ends of the i32 range.
ExtremeDeltas == {I32_MIN, -1, 0, 1, I32_MAX}
\* The payloads of inbound home/diald/volume/set messages.
InboundValues == {-5, 99, 130}

---------------------------------------------------------------------------
(* Values *)

None == <<>>
Some(x) == <<x>>
IsSome(o) == o # <<>>
Unwrap(o) == o[1]

Min(a, b) == IF a < b THEN a ELSE b
Max(a, b) == IF a > b THEN a ELSE b

\* An addition that drops its second operand.
AddNothing(a, b) == a

\* i32 addition of a build without overflow checks: the sum modulo 2^32,
\* computed without leaving the i32 range on the way.
AddI32(a, b) ==
    IF b > 0 /\ a > I32_MAX - b THEN I32_MIN + (a - (I32_MAX - b) - 1)
    ELSE IF b < 0 /\ a < I32_MIN - b THEN I32_MAX - (((I32_MIN - b) - 1) - a)
    ELSE a + b

\* Whether the i32 sum a + b lies outside the i32 range.
Overflows(a, b) ==
    \/ b > 0 /\ a > I32_MAX - b
    \/ b < 0 /\ a < I32_MIN - b

\* i32 division by a positive divisor, which truncates toward zero.
TruncDiv(a, b) ==
    LET q == a \div b
    IN  IF a < 0 /\ a % b # 0 THEN q + 1 ELSE q

\* i32::signum
Signum(x) == IF x > 0 THEN 1 ELSE IF x < 0 THEN -1 ELSE 0

\* A clamp that forgets the upper bound.
ClampLowerOnly(x) == Max(VOLUME_MIN, x)

\* f64::clamp(0.0, 100.0)
Clamp(x) == Max(VOLUME_MIN, Min(VOLUME_MAX, x))

\* f64::round() as i32, on the integer values volume holds.
Round(x) == x

---------------------------------------------------------------------------
(* The clock *)

\* An elapsed time d later: the time since a stored instant grows, up to cap.
Later(o, d, cap) == IF o = None THEN None ELSE Some(Min(Unwrap(o) + d, cap))

\* An elapsed time d later: the time left until a stored instant shrinks.
Sooner(o, d) == IF o = None THEN None ELSE Some(Max(Unwrap(o) - d, 0))

\* d milliseconds pass (thread::sleep): every stored instant ages by d.
Sleep(d) ==
    /\ last_event_at' = Later(last_event_at, d, IDLE_TIMEOUT)
    /\ last_print_at' = Later(last_print_at, d, PRINT_INTERVAL)
    /\ deadline' = Sooner(deadline, d)

\* The clock is sampled finely inside the 250 ms windows, which all start at
\* an input event, and across the idle deadline; the quiet stretch between is
\* crossed in one step.
FineAllowed ==
    \/ last_event_at = None
    \/ Unwrap(last_event_at) < PRINT_INTERVAL
    \/ Unwrap(last_event_at) >= IDLE_TIMEOUT - FineStep

\* How long a sleep of at least atLeast milliseconds may turn out to last.
SleepChoices(atLeast) ==
    {d \in {FineStep, IDLE_TIMEOUT - FineStep} :
        d >= atLeast /\ (d = FineStep => FineAllowed)}

---------------------------------------------------------------------------
(* DialState *)

\* DialState::set_mode
set_mode(current, wanted) == IF current # wanted THEN wanted ELSE current

\* A reset that leaves the backlash buffer as it is.
reset_keeps_buffer ==
    [mode |-> "Idle",
     raw_accumulator |-> 0,
     last_raw_direction |-> 0,
     consistent_direction_count |-> 0,
     pre_backlash_direction |-> 0,
     backlash_accumulator |-> backlash_accumulator]

\* The fields DialState::reset_to_idle writes, as they are after it.
reset_to_idle ==
    [mode |-> set_mode(mode, "Idle"),
     raw_accumulator |-> 0,
     last_raw_direction |-> 0,
     consistent_direction_count |-> 0,
     pre_backlash_direction |-> 0,
     backlash_accumulator |-> 0]

\* state.reset_to_idle() as a step: the six fields change, the others stay.
ResetToIdle ==
    LET r == reset_to_idle
    IN  /\ mode' = r.mode
        /\ raw_accumulator' = r.raw_accumulator
        /\ last_raw_direction' = r.last_raw_direction
        /\ consistent_direction_count' = r.consistent_direction_count
        /\ pre_backlash_direction' = r.pre_backlash_direction
        /\ backlash_accumulator' = r.backlash_accumulator
        /\ UNCHANGED <<last_event_at, volume, last_print_at,
                       last_printed_volume, clicking>>

---------------------------------------------------------------------------
(* EventBatcher *)

\* The index of label e in counts, or 0 (counts.iter_mut().find).
RECURSIVE FindLabel(_, _, _)
FindLabel(counts, e, i) ==
    IF i > Len(counts) THEN 0
    ELSE IF counts[i][1] = e THEN i
    ELSE FindLabel(counts, e, i + 1)

\* A turn of the loop that finds the label and does not count it.
CountOneStuck(counts, e) ==
    IF FindLabel(counts, e, 1) # 0 THEN counts ELSE Append(counts, <<e, 1>>)

\* One turn of emit_batch's loop.
CountOne(counts, e) ==
    LET j == FindLabel(counts, e, 1)
    IN  IF j # 0
        THEN [counts EXCEPT ![j] = <<counts[j][1], counts[j][2] + 1>>]
        ELSE Append(counts, <<e, 1>>)

RECURSIVE CountAll(_, _, _)
CountAll(counts, evs, i) ==
    IF i > Len(evs) THEN counts
    ELSE CountAll(CountOne(counts, evs[i]), evs, i + 1)

\* emit_batch: the (label, count) entries it logs and publishes.
emit_batch(evs) == CountAll(<<>>, evs, 1)

\* EventBatcher::try_flush: whether the deadline exists and has elapsed.
FlushDue(dl) == dl # None /\ ~(Unwrap(dl) > 0)

---------------------------------------------------------------------------
(* The REL_DIAL arm *)

\* A REL_DIAL arm without the clicking test.
RotationNeverIgnored(c) == FALSE

\* `if state.clicking { continue; }`
RotationIgnored(c) == c

\* A direction change at the raw level.
IsReversal(last, direction) == last # 0 /\ direction # last

\* The cancel test of the backlash exit.
IsCancel(direction, pre, count) ==
    direction = pre /\ count >= BACKLASH_CANCEL_THRESHOLD

\* A confirm test that is one event early.
IsConfirmEarly(count) == count >= BACKLASH_THRESHOLD - 1

\* The confirm test of the backlash exit.
IsConfirm(count) == count >= BACKLASH_THRESHOLD

\* A backlash exit that buzzes on a cancel too.
ExitFeedbackOnAnyExit(cancel, confirm) == IF cancel \/ confirm THEN 1 ELSE 0

\* haptic.send_chunky() calls of the backlash exit: one on confirm.
ExitFeedback(cancel, confirm) == IF ~cancel /\ confirm THEN 1 ELSE 0

\* A conversion that takes at most one notch out of the accumulator.
NotchDeltaSingle(raw) == Signum(TruncDiv(raw, RAW_PER_UNIT))

\* `state.raw_accumulator / 40`
NotchDelta(raw) == TruncDiv(raw, RAW_PER_UNIT)

\* A boundary buzz that also fires when the sum lands on a bound.
BoundaryFeedbackAtBound(unclamped) ==
    IF unclamped <= VOLUME_MIN \/ unclamped >= VOLUME_MAX THEN 1 ELSE 0

\* haptic.send_chunky() calls of the clamp: one when the sum left [0, 100].
BoundaryFeedback(unclamped) ==
    IF unclamped < VOLUME_MIN \/ unclamped > VOLUME_MAX THEN 1 ELSE 0

\* `last_print_at.map(|t| elapsed >= 250 ms).unwrap_or(true)`
TimeToPrint(lp) == IF lp = None THEN TRUE ELSE Unwrap(lp) >= PRINT_INTERVAL

\* A print test that does not look at the clock.
ShouldPrintAnyChange(current, printed, lp) == current # printed

\* `crossed_ten || (volume_changed && time_to_print)`
ShouldPrint(current, printed, lp) ==
    LET old_tens == TruncDiv(printed, 10)
        new_tens == TruncDiv(current, 10)
        crossed_ten == old_tens # new_tens
        volume_changed == current # printed
    IN  crossed_ten \/ (volume_changed /\ TimeToPrint(lp))

\* What the REL_DIAL arm makes of an event of value delta when the mode, after
\* the wake-up, is m: the fields it writes and what it sends out.
Rotated(m, delta) ==
    LET direction == Signum(delta)
        reversal == IsReversal(last_raw_direction, direction)
        same == ~reversal /\ direction = last_raw_direction
        entering == reversal /\ m # "Backlash"
        pre1 == IF entering THEN last_raw_direction ELSE pre_backlash_direction
        mode1 == IF reversal THEN "Backlash" ELSE m
        count1 == IF reversal THEN 1
                  ELSE IF same THEN consistent_direction_count + 1
                  ELSE consistent_direction_count
        raw1 == IF reversal THEN 0 ELSE raw_accumulator
        acc1 == IF reversal THEN delta
                ELSE IF same /\ m = "Backlash"
                     THEN AddI32(backlash_accumulator, delta)
                ELSE backlash_accumulator
        inBacklash == mode1 = "Backlash"
        cancel == inBacklash /\ IsCancel(direction, pre1, count1)
        confirm == inBacklash /\ ~cancel /\ IsConfirm(count1)
        stay == inBacklash /\ ~cancel /\ ~confirm
        mode2 == IF cancel \/ confirm THEN "Active" ELSE mode1
        raw2 == IF cancel \/ confirm THEN acc1
                ELSE IF inBacklash THEN raw1
                ELSE AddI32(raw1, delta)
        volume_delta == IF stay THEN 0 ELSE NotchDelta(raw2)
        raw3 == raw2 - volume_delta * RAW_PER_UNIT
        unclamped == volume + volume_delta
        volume1 == IF volume_delta # 0 THEN Clamp(unclamped) ELSE volume
        current_volume == Round(volume1)
        print == volume_delta # 0
                 /\ ShouldPrint(current_volume, last_printed_volume, last_print_at)
    IN  [mode |-> mode2,
         volume |-> volume1,
         raw_accumulator |-> raw3,
         last_print_at |-> IF print THEN Some(0) ELSE last_print_at,
         last_printed_volume |-> IF print THEN current_volume
                                 ELSE last_printed_volume,
         last_raw_direction |-> direction,
         consistent_direction_count |-> count1,
         pre_backlash_direction |-> pre1,
         backlash_accumulator |-> acc1,
         feedback |-> ExitFeedback(cancel, confirm)
                      + (IF volume_delta # 0 THEN BoundaryFeedback(unclamped) ELSE 0),
         published |-> IF print THEN Some(current_volume) ELSE None,
         outcome |-> IF cancel THEN "cancel"
                     ELSE IF confirm THEN "confirm"
                     ELSE IF entering THEN "entered"
                     ELSE IF stay THEN "buffered"
                     ELSE "normal",
         buffered |-> IF entering THEN delta
                      ELSE IF m = "Backlash" THEN AddI32(buffered, delta)
                      ELSE buffered]

\* Whether the REL_DIAL arm, handling delta in mode m, makes an i32 addition
\* whose sum is outside the range: `backlash_accumulator += event.value()` or
\* `raw_accumulator += event.value()`.
Overflowing(m, delta) ==
    LET direction == Signum(delta)
        reversal == IsReversal(last_raw_direction, direction)
        same == ~reversal /\ direction = last_raw_direction
        mode1 == IF reversal THEN "Backlash" ELSE m
    IN  \/ same /\ m = "Backlash" /\ Overflows(backlash_accumulator, delta)
        \/ mode1 # "Backlash" /\ Overflows(IF reversal THEN 0 ELSE raw_accumulator, delta)

\* The head of main's `for event in events` body: wake up, stamp the event.
Wake == IF mode = "Idle" THEN set_mode(mode, "Active") ELSE mode

\* Events are taken one by one from the batch fetch_events returned.
AtEvent == pc \in {"fetch", "events"}

\* InputEventKind::RelAxis(REL_DIAL) of value delta.
RotateEvent(delta) ==
    /\ AtEvent
    /\ pc' = "events"
    /\ n_events' = n_events + 1
    /\ last_event_at' = Some(0)
    /\ flushed' = None
    /\ UNCHANGED <<clicking, batcher, incoming_rx>>
    /\ IF RotationIgnored(clicking)
       THEN /\ mode' = Wake
            /\ feedback' = 0
            /\ published' = None
            /\ outcome' = "ignored"
            /\ UNCHANGED <<volume, raw_accumulator, last_print_at,
                           last_printed_volume, last_raw_direction,
                           consistent_direction_count, pre_backlash_direction,
                           backlash_accumulator, buffered>>
       ELSE LET r == Rotated(Wake, delta)
            IN  /\ mode' = r.mode
                /\ volume' = r.volume
                /\ raw_accumulator' = r.raw_accumulator
                /\ last_print_at' = r.last_print_at
                /\ last_printed_volume' = r.last_printed_volume
                /\ last_raw_direction' = r.last_raw_direction
                /\ consistent_direction_count' = r.consistent_direction_count
                /\ pre_backlash_direction' = r.pre_backlash_direction
                /\ backlash_accumulator' = r.backlash_accumulator
                /\ feedback' = r.feedback
                /\ published' = r.published
                /\ outcome' = r.outcome
                /\ buffered' = r.buffered

---------------------------------------------------------------------------
(* The other arms of the event match *)

\* A step that neither buzzes, publishes a volume nor flushes.
Quiet(what) ==
    /\ feedback' = 0
    /\ published' = None
    /\ flushed' = None
    /\ outcome' = what

\* A push that restarts the window every time (a sliding window).
push_sliding(label) ==
    /\ deadline' = Some(BATCH_WINDOW)
    /\ events' = Append(events, label)

\* EventBatcher::push: the first label of a window sets the deadline.
push(label) ==
    /\ deadline' = IF deadline = None THEN Some(BATCH_WINDOW) ELSE deadline
    /\ events' = Append(events, label)

\* A release that counts as a click whether or not a press came before.
ReleaseAlwaysClicks(c) == TRUE

\* `else if state.clicking`: a release completes a click only after a press.
ReleaseClicks(c) == c

\* InputEventKind::Key(BTN_0) of the given value: 1 is a press, 0 a release.
ClickEvent(value) ==
    /\ AtEvent
    /\ pc' = "events"
    /\ mode' = Wake
    /\ last_event_at' = Some(0)
    /\ UNCHANGED <<volume, raw_accumulator, last_print_at, last_printed_volume,
                   last_raw_direction, consistent_direction_count,
                   pre_backlash_direction, backlash_accumulator,
                   incoming_rx, buffered>>
    /\ n_events' = n_events + 1
    /\ IF value = 1
       THEN /\ clicking' = TRUE
            /\ UNCHANGED batcher
            /\ Quiet("press")
       ELSE IF ReleaseClicks(clicking)
       THEN /\ Len(events) < MaxPending
            /\ clicking' = FALSE
            /\ push("click")
            /\ Quiet("click")
       ELSE /\ UNCHANGED <<clicking, batcher>>
            /\ Quiet("release")

\* Any other event kind (`_ => {}`), a SYN_REPORT for one.
OtherEvent ==
    /\ AtEvent
    /\ pc' = "events"
    /\ mode' = Wake
    /\ last_event_at' = Some(0)
    /\ UNCHANGED <<volume, raw_accumulator, last_print_at, last_printed_volume,
                   clicking, last_raw_direction, consistent_direction_count,
                   pre_backlash_direction, backlash_accumulator,
                   batcher, incoming_rx, buffered>>
    /\ n_events' = n_events + 1
    /\ Quiet("other")

\* The batch is exhausted: back to the top of the poll loop.
EndBatch ==
    /\ pc = "events"
    /\ pc' = "flush"
    /\ UNCHANGED <<dial, batcher, incoming_rx, n_events, buffered>>
    /\ Quiet("end")

---------------------------------------------------------------------------
(* The poll loop *)

\* Device::open succeeds: the state is reset and the poll loop entered.
OpenDevice ==
    /\ pc = "open"
    /\ pc' = "flush"
    /\ ResetToIdle
    /\ UNCHANGED <<batcher, incoming_rx, n_events, buffered>>
    /\ Quiet("opened")

\* Device::open fails: sleep a second and try again.
OpenFail ==
    /\ pc = "open"
    /\ \E d \in SleepChoices(REOPEN_SLEEP) : Sleep(d)
    /\ UNCHANGED <<pc, mode, volume, raw_accumulator, last_printed_volume,
                   clicking, last_raw_direction, consistent_direction_count,
                   pre_backlash_direction, backlash_accumulator,
                   events, incoming_rx, n_events, buffered>>
    /\ Quiet("retry")

\* `if let Some(events) = batcher.try_flush() { emit_batch(events, &mqtt) }`
TryFlush ==
    /\ pc = "flush"
    /\ pc' = "drain"
    /\ feedback' = 0
    /\ published' = None
    /\ IF FlushDue(deadline)
       THEN /\ deadline' = None
            /\ events' = <<>>
            /\ flushed' = Some(emit_batch(events))
            /\ outcome' = "flushed"
       ELSE /\ UNCHANGED batcher
            /\ flushed' = None
            /\ outcome' = "no_flush"
    /\ UNCHANGED <<dial, incoming_rx, n_events, buffered>>

\* One inbound command: applied only while the dial is idle.
ApplyInbound(vp, v) ==
    IF mode = "Idle"
    THEN LET clamped == Clamp(v) IN <<clamped, Round(clamped)>>
    ELSE vp

\* A drain that takes the waiting commands newest first.
RECURSIVE DrainNewestFirst(_, _, _)
DrainNewestFirst(vp, queue, i) ==
    IF i > Len(queue) THEN vp
    ELSE DrainNewestFirst(ApplyInbound(vp, queue[Len(queue) + 1 - i]), queue, i + 1)

\* The try_recv loop: every waiting command, in the order it was sent.
RECURSIVE DrainAll(_, _, _)
DrainAll(vp, queue, i) ==
    IF i > Len(queue) THEN vp
    ELSE DrainAll(ApplyInbound(vp, queue[i]), queue, i + 1)

\* The inbound channel is emptied at every poll iteration.
DrainInbound ==
    /\ pc = "drain"
    /\ pc' = "idle"
    /\ LET vp == DrainAll(<<volume, last_printed_volume>>, incoming_rx, 1)
       IN  /\ volume' = vp[1]
           /\ last_printed_volume' = vp[2]
    /\ incoming_rx' = <<>>
    /\ UNCHANGED <<mode, last_event_at, raw_accumulator, last_print_at,
                   clicking, last_raw_direction, consistent_direction_count,
                   pre_backlash_direction, backlash_accumulator,
                   batcher, n_events, buffered>>
    /\ Quiet(IF incoming_rx = <<>> THEN "drained"
             ELSE IF mode = "Idle" THEN "volume_set"
             ELSE "volume_kept")

\* `Instant::now().duration_since(last_event) >= idle_timeout`
IdleElapsed(age) == age >= IDLE_TIMEOUT

\* The idle timeout applies in Active and Backlash, once an event was seen.
IdleDue ==
    /\ mode = "Active" \/ mode = "Backlash"
    /\ last_event_at # None
    /\ IdleElapsed(Unwrap(last_event_at))

\* "Transition to idle after timeout"
IdleCheck ==
    /\ pc = "idle"
    /\ pc' = "fetch"
    /\ IF IdleDue
       THEN ResetToIdle /\ Quiet("idle_reset")
       ELSE UNCHANGED dial /\ Quiet("idle_check")
    /\ UNCHANGED <<batcher, incoming_rx, n_events, buffered>>

\* fetch_events has nothing (WouldBlock): sleep and poll again.
WouldBlock ==
    /\ pc = "fetch"
    /\ pc' = "flush"
    /\ \E d \in SleepChoices(POLL_SLEEP) : Sleep(d)
    /\ UNCHANGED <<mode, volume, raw_accumulator, last_printed_volume,
                   clicking, last_raw_direction, consistent_direction_count,
                   pre_backlash_direction, backlash_accumulator,
                   events, incoming_rx, n_events, buffered>>
    /\ Quiet("sleep")

\* fetch_events fails: the device is gone, back to the open loop.
DeviceLost ==
    /\ pc = "fetch"
    /\ pc' = "open"
    /\ UNCHANGED <<dial, batcher, incoming_rx, n_events, buffered>>
    /\ Quiet("lost")

\* The MQTT thread receives a publish and sends its value down the channel.
\* Only the drain reads the channel, so a send made at any moment since the
\* last drain is the same send made just before the next one.
channel_send(v, cap) ==
    /\ pc = "drain"
    /\ Len(incoming_rx) < cap
    /\ incoming_rx' = Append(incoming_rx, v)
    /\ UNCHANGED <<dial, batcher, pc, observed, n_events>>

\* `tx.send(volume)` of a parsed home/diald/volume/set payload.
MqttSend(v) == channel_send(v, MaxInbox)

---------------------------------------------------------------------------
(* The daemon *)

\* DialState::new(), EventBatcher::new(250 ms), before the device is opened.
Init ==
    /\ mode = "Idle"
    /\ last_event_at = None
    /\ volume = INITIAL_VOLUME
    /\ raw_accumulator = 0
    /\ last_print_at = None
    /\ last_printed_volume = INITIAL_VOLUME
    /\ clicking = FALSE
    /\ last_raw_direction = 0
    /\ consistent_direction_count = 0
    /\ pre_backlash_direction = 0
    /\ backlash_accumulator = 0
    /\ events = <<>>
    /\ deadline = None
    /\ incoming_rx = <<>>
    /\ pc = "open"
    /\ feedback = 0
    /\ published = None
    /\ flushed = None
    /\ outcome = "start"
    /\ buffered = 0
    /\ n_events = 0

Rotation == n_events < MaxEvents /\ \E d \in Deltas : RotateEvent(d)
Click == n_events < MaxEvents /\ \E value \in {0, 1} : ClickEvent(value)
Other == n_events < MaxEvents /\ OtherEvent
Inbound == \E v \in InboundValues : MqttSend(v)

Next ==
    \/ OpenDevice
    \/ OpenFail
    \/ TryFlush
    \/ DrainInbound
    \/ IdleCheck
    \/ WouldBlock
    \/ DeviceLost
    \/ Rotation
    \/ Click
    \/ Other
    \/ EndBatch
    \/ Inbound

Spec == Init /\ [][Next]_vars

---------------------------------------------------------------------------
(* One gesture of rotation: a single batch of REL_DIAL events that turns the
   dial, reverses, and then either keeps the new direction or comes back *)

\* The volumes the dial can start a gesture from: the initial one and those an
\* inbound command leaves.
StartVolumes == {INITIAL_VOLUME} \cup {Clamp(v) : v \in InboundValues}

\* The daemon right before the first event of a batch: opened, polled, the
\* inbound commands applied, nothing handled yet.
InitRotation ==
    /\ mode = "Idle"
    /\ last_event_at = None
    /\ volume \in StartVolumes
    /\ last_printed_volume = Round(volume)
    /\ raw_accumulator = 0
    /\ last_print_at = None
    /\ clicking = FALSE
    /\ last_raw_direction = 0
    /\ consistent_direction_count = 0
    /\ pre_backlash_direction = 0
    /\ backlash_accumulator = 0
    /\ events = <<>>
    /\ deadline = None
    /\ incoming_rx = <<>>
    /\ pc = "fetch"
    /\ feedback = 0
    /\ published = None
    /\ flushed = None
    /\ outcome = "idle_check"
    /\ buffered = 0
    /\ n_events = 0

\* The events of a gesture: up to MaxLead events of any value take the dial
\* into Backlash; there the direction is kept, or, after fewer than
\* BACKLASH_CANCEL_THRESHOLD events in it, given up for the one held before.
InGesture(delta) ==
    IF mode # "Backlash"
    THEN n_events < MaxLead
    ELSE \/ Signum(delta) = last_raw_direction
         \/ /\ Signum(delta) = pre_backlash_direction
            /\ consistent_direction_count < BACKLASH_CANCEL_THRESHOLD

Gesture == \E d \in Deltas : InGesture(d) /\ RotateEvent(d)

NextRotation == Gesture

SpecRotation == InitRotation /\ [][NextRotation]_vars

\* The gestures in which every event turns the dial (no event of value 0).
Turning == \E d \in Deltas \ {0} : InGesture(d) /\ RotateEvent(d)

NextTurning == Turning

SpecTurning == InitRotation /\ [][NextTurning]_vars

---------------------------------------------------------------------------
(* The daemon under bursts of inbound commands: the poll loop, a few turns of
   the dial, and up to MaxBurst commands sent between two drains *)

Burst == \E v \in InboundValues : channel_send(v, MaxBurst)

Turn == n_events < MaxTurns /\ \E d \in {-1, 1} : RotateEvent(d)

NextInbound ==
    \/ OpenDevice
    \/ TryFlush
    \/ DrainInbound
    \/ IdleCheck
    \/ WouldBlock
    \/ Turn
    \/ EndBatch
    \/ Burst

SpecInbound == Init /\ [][NextInbound]_vars

---------------------------------------------------------------------------
(* One batch of REL_DIAL events with values at the ends of the i32 range.  An
   addition that overflows wraps around in a build without overflow checks
   and panics in a build with them. *)

\* `attempt to add with overflow`: the thread panics and the daemon is gone.
RotatePanic(delta) ==
    /\ AtEvent
    /\ ~RotationIgnored(clicking)
    /\ Overflowing(Wake, delta)
    /\ pc' = "panicked"
    /\ mode' = Wake
    /\ last_event_at' = Some(0)
    /\ n_events' = n_events + 1
    /\ UNCHANGED <<volume, raw_accumulator, last_print_at, last_printed_volume,
                   clicking, last_raw_direction, consistent_direction_count,
                   pre_backlash_direction, backlash_accumulator,
                   batcher, incoming_rx, buffered>>
    /\ Quiet("panic")

ExtremeRotation ==
    n_events < MaxExtreme /\ \E d \in ExtremeDeltas : RotateEvent(d)

ExtremePanic ==
    n_events < MaxExtreme /\ \E d \in ExtremeDeltas : RotatePanic(d)

NextExtreme == ExtremeRotation \/ ExtremePanic

SpecExtreme == InitRotation /\ [][NextExtreme]_vars

---------------------------------------------------------------------------
(* The daemon as it runs on: clicks, device losses and reopenings.  The main
   thread always takes its next step, so the poll loop keeps turning; whether
   and when Device::open succeeds is up to the device. *)

\* fetch_events fails, one of the few times the device is lost.
Unplug ==
    /\ n_events < MaxLive
    /\ pc = "fetch"
    /\ pc' = "open"
    /\ n_events' = n_events + 1
    /\ UNCHANGED <<dial, batcher, incoming_rx, buffered>>
    /\ Quiet("lost")

LiveClick == n_events < MaxLive /\ \E value \in {0, 1} : ClickEvent(value)

\* The steps of the poll loop.
Poll ==
    \/ TryFlush
    \/ DrainInbound
    \/ IdleCheck
    \/ WouldBlock
    \/ Unplug
    \/ LiveClick
    \/ EndBatch

NextLive ==
    \/ OpenDevice
    \/ OpenFail
    \/ Poll

SpecLive == Init /\ [][NextLive]_vars /\ WF_vars(Poll)

---------------------------------------------------------------------------
(* Properties *)

\* A step that handles a REL_DIAL event.
RotateStep == \E d \in Deltas : RotateEvent(d)

\* A step that handles any input event.
EventStep ==
    \/ RotateStep
    \/ \E value \in {0, 1} : ClickEvent(value)
    \/ OtherEvent

\* The decade of a volume (value / 10).
Decade(v) == TruncDiv(v, 10)

\* C1: in every reachable state, whatever rotations, clicks, idle resets,
\* device reopenings and inbound volume commands came before, volume is
\* within [0, 100].
C1_VolumeInRange == volume >= 0 /\ volume <= 100

\* A rotation has run into the upper bound and was clamped.
C1_Witness == outcome = "normal" /\ feedback = 1 /\ volume = 100

\* The boundary triggers the conversion of a transferred buffer fires: one
\* when volume plus the buffer's whole notches leaves [0, 100].
TransferOvershoot(vol, transferred) ==
    LET unclamped == vol + TruncDiv(transferred, 40)
    IN  IF unclamped < 0 \/ unclamped > 100 THEN 1 ELSE 0

\* The step that cancels Backlash: it ends in the direction held before.
CancelStep ==
    /\ mode = "Backlash"
    /\ mode' = "Active"
    /\ last_raw_direction' = pre_backlash_direction'

\* C2 (as stated): a reversal sustained to the 25th same-direction event
\* triggers the feedback port exactly once, on that event, and never on the
\* 24 events before it, for every starting volume and delta magnitude.
C2_ExactlyOneTrigger ==
    [][RotateStep =>
        /\ mode' = "Backlash" => feedback' = 0
        /\ (mode = "Backlash" /\ consistent_direction_count' = 25)
              => (mode' = "Active" /\ feedback' = 1)]_vars

\* C2 (amended): the events of a sustained reversal keep the dial in Backlash
\* and trigger nothing until the count reaches 25; the 25th event leaves
\* Backlash and fires the one confirm trigger, plus one boundary trigger
\* exactly when the transferred buffer takes the volume out of [0, 100].
C2_ConfirmFeedback ==
    [][RotateStep =>
        /\ mode' = "Backlash"
              => (feedback' = 0 /\ consistent_direction_count' < 25)
        /\ ((mode = "Backlash" \/ mode' = "Backlash")
              /\ last_raw_direction' # pre_backlash_direction'
              /\ consistent_direction_count' < 25)
              => mode' = "Backlash"
        /\ (mode = "Backlash" /\ consistent_direction_count' = 25)
              => /\ mode' = "Active"
                 /\ feedback' = 1 + TransferOvershoot(volume, backlash_accumulator')]_vars

\* A reversal was confirmed on its 25th event with a single trigger.
C2_Witness ==
    outcome = "confirm" /\ consistent_direction_count = 25 /\ feedback = 1

\* C3 (as stated): from the reversing event to the event that cancels
\* Backlash, no event triggers the feedback port, for every starting volume
\* and delta magnitude.
C3_NoTrigger ==
    [][RotateStep =>
        /\ mode' = "Backlash" => feedback' = 0
        /\ CancelStep => feedback' = 0]_vars

\* C3 (amended): the events buffered in Backlash trigger nothing; once the
\* direction is back at the one held before, Backlash is cancelled as soon as
\* the count is 5, and the cancelling event fires no trigger of its own, only
\* the boundary trigger when the transferred buffer takes the volume out of
\* [0, 100].
C3_CancelFeedback ==
    [][RotateStep =>
        /\ mode' = "Backlash" => feedback' = 0
        /\ (mode = "Backlash" /\ last_raw_direction' = pre_backlash_direction')
              => (mode' = "Active" <=> consistent_direction_count' >= 5)
        /\ CancelStep
              => feedback' = TransferOvershoot(volume, backlash_accumulator')]_vars

\* A false-positive reversal was cancelled without any trigger.
C3_Witness ==
    /\ outcome = "cancel"
    /\ feedback = 0
    /\ last_raw_direction = pre_backlash_direction
    /\ consistent_direction_count = 5

\* C4: at a cancel the value transferred into raw_accumulator (the buffer,
\* backlash_accumulator) is the sum of the deltas of all the events handled
\* since Backlash was entered.
C4_NothingLost == outcome = "cancel" => backlash_accumulator = buffered

\* C5: at the idle check of a poll iteration, a dial that is Active or in
\* Backlash and has seen no event for 30 s is reset (mode Idle, accumulator,
\* direction tracking and backlash fields 0) with volume as it was; before
\* that the check resets nothing.  A dial that is not Idle has seen an event.
C5_IdleReset ==
    [][/\ mode' # "Idle" => last_event_at' # None
       /\ pc = "idle" =>
            IF /\ mode \in {"Active", "Backlash"}
               /\ Unwrap(last_event_at) >= 30000
            THEN /\ mode' = "Idle"
                 /\ raw_accumulator' = 0
                 /\ last_raw_direction' = 0
                 /\ consistent_direction_count' = 0
                 /\ pre_backlash_direction' = 0
                 /\ backlash_accumulator' = 0
                 /\ volume' = volume
            ELSE UNCHANGED <<mode, raw_accumulator, last_raw_direction,
                             consistent_direction_count,
                             pre_backlash_direction, backlash_accumulator,
                             volume>>]_vars

\* The idle timeout has reset a dial whose volume a rotation had changed.
C5_Witness ==
    outcome = "idle_reset" /\ mode = "Idle" /\ volume # 50

\* C6: while clicking, a REL_DIAL event of any value changes none of volume,
\* raw_accumulator, last_raw_direction, consistent_direction_count,
\* pre_backlash_direction, backlash_accumulator, triggers no feedback and
\* publishes no volume.
C6_ClickSuppressesRotation ==
    [][(clicking /\ RotateStep) =>
        /\ UNCHANGED <<volume, raw_accumulator, last_raw_direction,
                       consistent_direction_count, pre_backlash_direction,
                       backlash_accumulator>>
        /\ feedback' = 0
        /\ published' = None]_vars

\* A rotation was ignored while the button was held and rotation was pending.
C6_Witness == outcome = "ignored" /\ clicking /\ raw_accumulator # 0

\* C7: once the poll loop has made its timeout checks, no click gesture is
\* still in progress whose press, and every event since, is 2 s old or older.
C7_ClickTimeout ==
    pc = "fetch" =>
        ~(clicking /\ last_event_at # None
                   /\ Unwrap(last_event_at) >= CLICK_TIMEOUT)

\* The entries c count the labels of evs: one entry per distinct label, with
\* the number of times it occurs.
CountsMatch(c, evs) ==
    /\ \A i \in DOMAIN c :
          c[i][2] = Cardinality({k \in DOMAIN evs : evs[k] = c[i][1]})
    /\ \A i, j \in DOMAIN c : i # j => c[i][1] # c[j][1]
    /\ {c[i][1] : i \in DOMAIN c} = {evs[k] : k \in DOMAIN evs}

\* C8: a flush whose deadline has elapsed delivers every pending label, one
\* entry per distinct label with the number of its pushes, and leaves the
\* batcher empty without a deadline; any other flush check delivers nothing
\* and keeps the batcher; no other step drops or repeats a pending label.
C8_FlushCounts ==
    [][IF pc = "flush"
       THEN IF deadline # None /\ Unwrap(deadline) = 0
            THEN /\ flushed' # None
                 /\ CountsMatch(Unwrap(flushed'), events)
                 /\ events' = <<>>
                 /\ deadline' = None
            ELSE flushed' = None /\ UNCHANGED <<events, deadline>>
       ELSE events' = events \/ events' = Append(events, "click")]_vars

\* Two clicks pushed in one window were flushed as the one entry (click, 2).
C8_Witness ==
    /\ flushed = Some(<< <<"click", 2>> >>)
    /\ events = <<>>
    /\ deadline = None

C10_WakeBuzz ==
    [][(mode = "Idle" /\ EventStep) =>
        /\ mode' = "Active"
        /\ last_event_at' = Some(0)
        /\ feedback' = 1]_vars

\* C11: a send changes no DialState field.  The drain of a poll iteration
\* empties the channel; made while the dial is Idle with commands waiting, it
\* leaves volume at the clamped value of the command sent last (the commands
\* apply in sending order) and last_printed_volume at its rounding, with mode
\* Idle and the other fields as they were; made while the dial is Active or in
\* Backlash, it changes no DialState field, and the commands are gone.
C11_InboundOnlyWhenIdle ==
    [][/\ (incoming_rx' # incoming_rx /\ pc' = pc) => UNCHANGED dial
       /\ (pc = "drain" /\ pc' # "drain") =>
            /\ incoming_rx' = <<>>
            /\ IF mode = "Idle" /\ incoming_rx # <<>>
               THEN LET v == incoming_rx[Len(incoming_rx)]
                        c == IF v < 0 THEN 0 ELSE IF v > 100 THEN 100 ELSE v
                    IN  /\ volume' = c
                        /\ last_printed_volume' = c
                        /\ mode' = "Idle"
                        /\ UNCHANGED <<last_event_at, raw_accumulator,
                                       last_print_at, clicking,
                                       last_raw_direction,
                                       consistent_direction_count,
                                       pre_backlash_direction,
                                       backlash_accumulator>>
               ELSE UNCHANGED dial]_vars

\* A command above the range was applied, clamped, to a dial that an idle
\* reset had brought back to Idle.
C11_Witness ==
    /\ outcome = "volume_set"
    /\ mode = "Idle"
    /\ last_event_at # None
    /\ volume = 100
    /\ last_printed_volume = 100

\* Commands were drained, and dropped, while the dial was in Backlash.
C11_WitnessDropped == outcome = "volume_kept" /\ mode = "Backlash"

\* C12: when the device has been reopened the dial is in a clean Idle state:
\* mode Idle, raw_accumulator 0, direction tracking and backlash fields
\* cleared, and no click gesture in progress.
C12_CleanAfterReopen ==
    outcome = "opened" =>
        /\ mode = "Idle"
        /\ raw_accumulator = 0
        /\ last_raw_direction = 0
        /\ consistent_direction_count = 0
        /\ pre_backlash_direction = 0
        /\ backlash_accumulator = 0
        /\ clicking = FALSE

\* C13: no REL_DIAL event, whatever its i32 value, is handled in a state
\* where one of the additions into raw_accumulator or backlash_accumulator
\* leaves the i32 range, so no event makes the daemon panic or an accumulator
\* wrap around.
C13_NoOverflow ==
    [][\A d \in ExtremeDeltas :
          (RotateEvent(d) \/ RotatePanic(d)) =>
              /\ pc' # "panicked"
              /\ ~clicking =>
                    /\ mode' # "Backlash"
                          => ~Overflows(IF mode = "Backlash" THEN 0 ELSE raw_accumulator, d)
                    /\ (mode = "Backlash" /\ Signum(d) = last_raw_direction)
                          => ~Overflows(backlash_accumulator, d)]_vars

\* C14: a REL_DIAL event of value 0, handled while no click is in progress,
\* is no reversal: it does not take a dial that is not in Backlash into
\* Backlash, does not discard raw_accumulator, and does not set
\* consistent_direction_count back to 1.
C14_ZeroIsNoReversal ==
    [][(~clicking /\ RotateEvent(0)) =>
        /\ mode # "Backlash" =>
              (mode' # "Backlash" /\ raw_accumulator' = raw_accumulator)
        /\ consistent_direction_count' = 1
              => consistent_direction_count \in {0, 1}]_vars

\* C15: for a REL_DIAL event whose notch conversion is not zero, a boundary
\* trigger (a trigger other than the one of a confirm) fires exactly when
\* volume plus the volume delta is below 0 or above 100, and volume is then at
\* the bound it ran into; a conversion that ends on 0 or 100 or between them
\* sets the volume to the sum and fires no boundary trigger.  The converted
\* amount is raw_accumulator plus the delta, or the buffer transferred by an
\* exit from Backlash.
C15_BoundaryTrigger ==
    [][\A d \in Deltas : (~clicking /\ RotateEvent(d) /\ mode' # "Backlash") =>
          LET raw == IF mode = "Backlash" THEN backlash_accumulator'
                     ELSE raw_accumulator + d
              volume_delta == TruncDiv(raw, 40)
              boundary == feedback' - (IF outcome' = "confirm" THEN 1 ELSE 0)
          IN  volume_delta # 0 =>
                 IF volume + volume_delta < 0
                 THEN boundary = 1 /\ volume' = 0
                 ELSE IF volume + volume_delta > 100
                 THEN boundary = 1 /\ volume' = 100
                 ELSE boundary = 0 /\ volume' = volume + volume_delta]_vars

\* A notch took the volume from 99 exactly onto 100 and nothing was triggered.
C15_Witness ==
    outcome = "normal" /\ published = Some(100) /\ feedback = 0 /\ volume = 100

\* C16: once a REL_DIAL event has been handled, in whatever mode and with
\* whatever delta, also when a cancel or confirm has just transferred the
\* backlash buffer, the magnitude of raw_accumulator is below 40; no other
\* step takes it out of that range either.
C16_RemainderBelowNotch == raw_accumulator > -40 /\ raw_accumulator < 40

\* A confirm transferred a buffer of more than a notch and left a remainder.
C16_Witness ==
    /\ outcome = "confirm"
    /\ backlash_accumulator >= 40
    /\ raw_accumulator > 0

C18_FixedWindow ==
    [][/\ deadline' # None <=> events' # <<>>
       /\ Len(events') > Len(events) =>
             IF deadline = None THEN deadline' = Some(250)
             ELSE deadline' = deadline
       /\ (deadline # None /\ deadline' # None)
             => Unwrap(deadline') <= Unwrap(deadline)
       /\ (pc = "flush" /\ (deadline = None \/ Unwrap(deadline) > 0))
             => (flushed' = None /\ UNCHANGED <<events, deadline>>)]_vars

\* A second click was pushed 125 ms into the window and the deadline stayed.
C18_Witness ==
    /\ outcome = "click"
    /\ events = <<"click", "click">>
    /\ deadline = Some(125)

\* C19: a Click(false) handled while clicking appends one `click` to the
\* pending labels and clears clicking; a Click(false) handled while not
\* clicking, and every Click(true), appends nothing, a Click(true) leaving
\* clicking set; and no other step appends a label or clears clicking, so
\* several presses before one release make one click.
C19_ClickPairs ==
    [][/\ \A value \in {0, 1} : ClickEvent(value) =>
             IF value = 0 /\ clicking
             THEN events' = Append(events, "click") /\ clicking' = FALSE
             ELSE events' = events /\ clicking' = (clicking \/ value = 1)
       /\ Len(events') > Len(events) => (clicking /\ ~clicking')
       /\ (clicking /\ ~clicking') => events' = Append(events, "click")]_vars

\* After a completed click a further release was handled and pushed nothing.
C19_Witness ==
    /\ outcome = "release"
    /\ events = <<"click">>
    /\ clicking = FALSE

\* C20: in every execution of the daemon, also one in which the device is
\* lost after a push and is not reopened, pending labels are eventually
\* flushed.
C20_EventuallyFlushed == (events # <<>>) ~> (events = <<>>)

\* C21: a REL_DIAL event of value d handled while the dial is Active and no
\* click is in progress, that is no reversal (d is 0, or no direction was
\* held, or d has the direction held) and whose conversion is not clamped
\* (volume plus the whole notches of raw_accumulator + d stays within
\* [0, 100]), makes 40 * volume + raw_accumulator grow by exactly d.
C21_RotationConserved ==
    [][\A d \in Deltas :
          (/\ RotateEvent(d)
           /\ mode = "Active"
           /\ ~clicking
           /\ ~(d # 0 /\ last_raw_direction # 0
                       /\ Signum(d) # last_raw_direction)
           /\ volume + TruncDiv(raw_accumulator + d, 40) >= 0
           /\ volume + TruncDiv(raw_accumulator + d, 40) <= 100)
          => 40 * volume' + raw_accumulator'
                = 40 * volume + raw_accumulator + d]_vars

====
